---- MODULE Spec2Model ----
(***************************************************************************)
(* Data-model layer of the web-to-android packaging service               *)
(* (src/app/models.py): the three persisted tables projects,              *)
(* project_files and build_outputs, the transient schemas ProjectCreate,  *)
(* ProjectUpdate and ProjectSummary, and the write path the declarations   *)
(* define (validated construction, insert with foreign keys, partial       *)
(* update, cascading delete inside one transaction).                       *)
(***************************************************************************)
EXTENDS Integers, Sequences, FiniteSets, TLC

VARIABLES
    projects,        \* table "projects": id -> Project row
    project_files,   \* table "project_files": id -> ProjectFile row
    build_outputs,   \* table "build_outputs": id -> BuildOutput row
    seq,             \* the three primary-key sequences
    clock,           \* what datetime.utcnow returns
    txn,             \* the open unit of work of a cascading delete, or NoTxn
    last,            \* the last operation: its name, its error kind, its result
    input,           \* a package-name string handed to a schema for validation
    verdict          \* what ProjectCreate and ProjectUpdate said about it

vars == <<projects, project_files, build_outputs, seq, clock, txn, last, input, verdict>>

----------------------------------------------------------------------------
(* Bounds of the model *)

MaxLen == 3          \* characters of a validated string before its padding
MaxProjects == 2     \* rows the projects sequence hands out
MaxPatched == 1      \* the same, where the fields of the rows are patched
MaxFiles == 2        \* rows the project_files sequence hands out
MaxBuilds == 1       \* rows the build_outputs sequence hands out
MaxClock == 1        \* ticks of the clock

(* Program constants *)

PackageNameMaxLength == 100
DefaultVersionCode == 1

----------------------------------------------------------------------------
(* Optional values: None is the empty tuple, a present value v is <<v>>. *)

None == <<>>
Some(v) == <<v>>

----------------------------------------------------------------------------
(* Enumerations *)

ProjectStatus == {"draft", "uploaded", "processing", "packaged", "failed"}

FileType == {"html", "css", "javascript", "image", "font", "other"}

----------------------------------------------------------------------------
\* The package-name pattern  ^[a-z][a-z0-9_]*(\.[a-z][a-z0-9_]*)*$  as re.match
\* runs it: anchored at the start, and "$" as that engine reads it.

Lower == {"a", "b", "c", "d", "e", "f", "g", "h", "i", "j", "k", "l", "m",
          "n", "o", "p", "q", "r", "s", "t", "u", "v", "w", "x", "y", "z"}

Digit == {"0", "1", "2", "3", "4", "5", "6", "7", "8", "9"}

WordChar == Lower \cup Digit \cup {"_"}

\* One character of the match; "head" where [a-z] must come next (the start,
\* or after a dot), "tail" inside [a-z0-9_]*, "fail" once the pattern is left.
PackageNameStep(st, c) ==
    CASE st = "head" -> IF c \in Lower THEN "tail" ELSE "fail"
      [] st = "tail" -> IF c \in WordChar THEN "tail"
                        ELSE IF c = "." THEN "head" ELSE "fail"
      [] OTHER       -> "fail"

\* The state after s[lo..hi], read from state st.
RECURSIVE PackageNameRun(_, _, _, _)
PackageNameRun(s, lo, hi, st) ==
    IF st = "fail" \/ lo > hi THEN st
    ELSE IF lo = hi THEN PackageNameStep(st, s[lo])
    ELSE LET mid == (lo + hi) \div 2
         IN  PackageNameRun(s, mid + 1, hi, PackageNameRun(s, lo, mid, st))

\* "$": the end of the string, or just before a newline that ends the string.
DollarPositions(s) ==
    {Len(s)} \cup (IF Len(s) >= 1 /\ s[Len(s)] = "\n" THEN {Len(s) - 1} ELSE {})

PackageNameRegex(s) == \E n \in DollarPositions(s) : PackageNameRun(s, 1, n, "head") = "tail"

\* Field(max_length=100, regex=...) on a str.
PackageNameField(s) == Len(s) <= PackageNameMaxLength /\ PackageNameRegex(s)

\* ProjectCreate.package_name: required.
ProjectCreateValidate(s) == IF PackageNameField(s) THEN "ok" ELSE "ValidationError"

\* ProjectUpdate.package_name: Optional, None passes.
ProjectUpdateValidate(o) ==
    IF o = None \/ PackageNameField(o[1]) THEN "ok" ELSE "ValidationError"

----------------------------------------------------------------------------
(* Persistent models *)

EmptyConfig == {}

\* A keyword argument of a constructor, or the field's default.
Get(kw, f, d) == IF f \in DOMAIN kw THEN kw[f] ELSE d

RequiredProjectFields == {"name", "package_name", "app_name"}

\* A status default left at another member of the enumeration.
ProjectDefaultsUploaded ==
    [ description  |-> "",
      status       |-> "uploaded",
      version_code |-> DefaultVersionCode,
      version_name |-> "1.0.0",
      packaged_at  |-> None,
      config       |-> Some(EmptyConfig) ]

\* The defaults of Project's fields.
ProjectDefaults ==
    [ description  |-> "",
      status       |-> "draft",
      version_code |-> DefaultVersionCode,
      version_name |-> "1.0.0",
      packaged_at  |-> None,
      config       |-> Some(EmptyConfig) ]

\* created_at taken from a clock that runs ahead of the one updates read.
ProjectTimestampsAhead(now) == [created_at |-> now + 1, updated_at |-> now]

\* created_at and updated_at: default_factory=datetime.utcnow, both.
ProjectTimestamps(now) == [created_at |-> now, updated_at |-> now]

\* class Project(SQLModel, table=True): a table model is constructed without
\* validation; every field not given takes its default.
Project(kw, now) ==
    [ id           |-> None,
      name         |-> kw.name,
      description  |-> Get(kw, "description", ProjectDefaults.description),
      status       |-> Get(kw, "status", ProjectDefaults.status),
      package_name |-> kw.package_name,
      app_name     |-> kw.app_name,
      version_code |-> Get(kw, "version_code", ProjectDefaults.version_code),
      version_name |-> Get(kw, "version_name", ProjectDefaults.version_name),
      created_at   |-> ProjectTimestamps(now).created_at,
      updated_at   |-> ProjectTimestamps(now).updated_at,
      packaged_at  |-> ProjectDefaults.packaged_at,
      config       |-> Get(kw, "config", ProjectDefaults.config) ]

\* class ProjectFile(SQLModel, table=True)
ProjectFile(kw, now) ==
    [ id                |-> None,
      project_id        |-> kw.project_id,
      filename          |-> kw.filename,
      original_filename |-> kw.filename,
      file_path         |-> kw.filename,
      file_type         |-> Get(kw, "file_type", "other"),
      file_size         |-> 0,
      mime_type         |-> "text/html",
      is_main_file      |-> Get(kw, "is_main_file", FALSE),
      uploaded_at       |-> now,
      file_metadata     |-> EmptyConfig ]

\* class BuildOutput(SQLModel, table=True)
BuildOutput(kw, now) ==
    [ id             |-> None,
      project_id     |-> kw.project_id,
      build_version  |-> kw.build_version,
      output_path    |-> kw.output_path,
      build_log      |-> "",
      success        |-> Get(kw, "success", FALSE),
      error_message  |-> Get(kw, "error_message", ""),
      build_duration |-> None,
      created_at     |-> now,
      build_config   |-> EmptyConfig ]

----------------------------------------------------------------------------
(* Non-persistent schemas *)

\* class ProjectCreate(SQLModel, table=False): validated on construction.
ProjectCreate(kw) ==
    [ error |-> ProjectCreateValidate(kw.package_name),
      obj   |-> [ name         |-> kw.name,
                  description  |-> Get(kw, "description", ""),
                  package_name |-> kw.package_name,
                  app_name     |-> kw.app_name,
                  version_name |-> Get(kw, "version_name", "1.0.0"),
                  config       |-> Get(kw, "config", Some(EmptyConfig)) ] ]

UpdateFields ==
    {"name", "description", "package_name", "app_name", "version_name", "status", "config"}

\* A status taken as any string.
StatusFieldUnchecked(o) == TRUE

\* Optional[ProjectStatus]: None or a member of the enumeration.
StatusField(o) == o = None \/ o[1] \in ProjectStatus

\* config counted as supplied whether the payload carries it or not.
ProjectUpdateConfigSupplied(kw) ==
    [ error      |-> IF /\ ProjectUpdateValidate(Get(kw, "package_name", None)) = "ok"
                        /\ StatusField(Get(kw, "status", None))
                     THEN "ok" ELSE "ValidationError",
      fields_set |-> DOMAIN kw \cup {"config"},
      values     |-> [f \in UpdateFields |-> Get(kw, f, None)] ]

\* class ProjectUpdate(SQLModel, table=False): every field Optional with
\* default None; the object remembers which fields the payload supplied.
ProjectUpdate(kw) ==
    [ error      |-> IF /\ ProjectUpdateValidate(Get(kw, "package_name", None)) = "ok"
                        /\ StatusField(Get(kw, "status", None))
                     THEN "ok" ELSE "ValidationError",
      fields_set |-> DOMAIN kw,
      values     |-> [f \in UpdateFields |-> Get(kw, f, None)] ]

\* The relationship joined on nothing: every ProjectFile row.
FilesOfAnyProject(pid) == DOMAIN project_files

\* Project.files: the ProjectFile rows whose project_id is the project's id.
FilesOf(pid) == {f \in DOMAIN project_files : project_files[f].project_id = pid}

\* Project.builds: the BuildOutput rows whose project_id is the project's id.
BuildsOf(pid) == {b \in DOMAIN build_outputs : build_outputs[b].project_id = pid}

\* datetime.isoformat of a timestamp.
IsoFormat(t) == <<"iso8601", t>>

\* class ProjectSummary(SQLModel, table=False), filled from a Project row.
ProjectSummary(p) ==
    [ id           |-> p.id,
      name         |-> p.name,
      status       |-> p.status,
      app_name     |-> p.app_name,
      version_name |-> p.version_name,
      file_count   |-> Cardinality(FilesOf(p.id)),
      created_at   |-> IsoFormat(p.created_at),
      updated_at   |-> IsoFormat(p.updated_at) ]

----------------------------------------------------------------------------
(* The store *)

NoTxn == [open |-> FALSE, project_id |-> 0, files |-> {}, builds |-> {}, parent |-> FALSE]

Outcome(op, error, result) == [op |-> op, error |-> error, result |-> result]

\* default_factory=datetime.utcnow
UtcNow == clock

\* A project_id column without its foreign key.
ForeignKeyUnchecked(pid) == TRUE

\* foreign_key="projects.id": the referenced row exists.
ForeignKeyHolds(pid) == pid \in DOMAIN projects

\* The child rows a delete of the project cascades to (cascade_delete=True).
CascadeFiles(pid) == FilesOf(pid)

\* A cascade that takes the builds of every project.
CascadeAllBuilds(pid) == DOMAIN build_outputs

CascadeBuilds(pid) == BuildsOf(pid)

\* A parent row deleted without waiting for its dependent rows.
ParentDeletableAtOnce(t) == TRUE

\* The unit of work deletes the parent row after its dependent rows.
ParentDeletable(t) ==
    /\ CascadeFiles(t.project_id) \subseteq t.files
    /\ CascadeBuilds(t.project_id) \subseteq t.builds

\* A table without the rows of the given ids.
Without(table, ids) == [i \in DOMAIN table \ ids |-> table[i]]

\* What the open unit of work sees: the committed rows less its own deletes.
ViewProjects == DOMAIN projects \ (IF txn.parent THEN {txn.project_id} ELSE {})

ViewFiles == DOMAIN project_files \ txn.files

ViewBuilds == DOMAIN build_outputs \ txn.builds

\* The columns of projects that are NOT NULL: all that ProjectUpdate carries
\* but config, whose column is a bare Column(JSON).
NotNullFields == UpdateFields \ {"config"}

\* The write path of a partial update: the supplied fields only, and
\* updated_at refreshed when the row changes.
ApplyUpdate(row, u, now) ==
    LET patched == [f \in DOMAIN row |->
                       IF f \in u.fields_set
                       THEN IF f \in NotNullFields THEN u.values[f][1] ELSE u.values[f]
                       ELSE row[f]]
    IN  IF patched = row THEN row ELSE [patched EXCEPT !.updated_at = now]

NullViolation(u) == \E f \in u.fields_set \cap NotNullFields : u.values[f] = None

----------------------------------------------------------------------------
(* Operations *)

Idle == ~txn.open

\* session.add(row); commit: the sequence assigns the primary key.
InsertProject(op, row, result) ==
    LET id == seq.projects IN
    /\ projects' = (id :> [row EXCEPT !.id = id]) @@ projects
    /\ seq' = [seq EXCEPT !.projects = id + 1]
    /\ last' = Outcome(op, "ok", [id |-> id, arg |-> result])

\* Create from a validated ProjectCreate payload.
CreateProject(kw) ==
    LET c == ProjectCreate(kw) IN
    /\ Idle
    /\ IF c.error # "ok"
       THEN /\ last' = Outcome("create", c.error, None)
            /\ UNCHANGED <<projects, seq>>
       ELSE InsertProject("create", Project(c.obj, UtcNow), [given |-> DOMAIN kw, obj |-> c.obj])
    /\ UNCHANGED <<project_files, build_outputs, clock, txn, input, verdict>>

\* Construct the table model directly and save it.
SaveProject(kw) ==
    /\ Idle
    /\ InsertProject("save", Project(kw, UtcNow), DOMAIN kw)
    /\ UNCHANGED <<project_files, build_outputs, clock, txn, input, verdict>>

\* Patch a project from a ProjectUpdate payload.
UpdateProject(pid, kw) ==
    LET u == ProjectUpdate(kw) IN
    /\ Idle
    /\ IF u.error # "ok"
       THEN /\ last' = Outcome("update", u.error, None)
            /\ UNCHANGED projects
       ELSE IF pid \notin DOMAIN projects
       THEN /\ last' = Outcome("update", "NotFoundError", None)
            /\ UNCHANGED projects
       ELSE IF NullViolation(u)
       THEN /\ last' = Outcome("update", "PersistenceError", None)
            /\ UNCHANGED projects
       ELSE /\ projects' = [projects EXCEPT ![pid] = ApplyUpdate(@, u, UtcNow)]
            /\ last' = Outcome("update", "ok", [id |-> pid, arg |-> kw])
    /\ UNCHANGED <<project_files, build_outputs, seq, clock, txn, input, verdict>>

\* Insert a ProjectFile row.
InsertProjectFile(kw) ==
    LET id == seq.project_files IN
    /\ Idle
    /\ IF ~ForeignKeyHolds(kw.project_id)
       THEN /\ last' = Outcome("insert_file", "ReferentialIntegrityError", kw.project_id)
            /\ UNCHANGED <<project_files, seq>>
       ELSE /\ project_files' = (id :> [ProjectFile(kw, UtcNow) EXCEPT !.id = id]) @@ project_files
            /\ seq' = [seq EXCEPT !.project_files = id + 1]
            /\ last' = Outcome("insert_file", "ok", kw.project_id)
    /\ UNCHANGED <<projects, build_outputs, clock, txn, input, verdict>>

\* Delete one ProjectFile row.
DeleteProjectFile(fid) ==
    /\ Idle
    /\ IF fid \notin DOMAIN project_files
       THEN /\ last' = Outcome("delete_file", "NotFoundError", fid)
            /\ UNCHANGED project_files
       ELSE /\ project_files' = Without(project_files, {fid})
            /\ last' = Outcome("delete_file", "ok", fid)
    /\ UNCHANGED <<projects, build_outputs, seq, clock, txn, input, verdict>>

\* Insert a BuildOutput row.
InsertBuildOutput(kw) ==
    LET id == seq.build_outputs IN
    /\ Idle
    /\ IF ~ForeignKeyHolds(kw.project_id)
       THEN /\ last' = Outcome("insert_build", "ReferentialIntegrityError", kw.project_id)
            /\ UNCHANGED <<build_outputs, seq>>
       ELSE /\ build_outputs' = (id :> [BuildOutput(kw, UtcNow) EXCEPT !.id = id]) @@ build_outputs
            /\ seq' = [seq EXCEPT !.build_outputs = id + 1]
            /\ last' = Outcome("insert_build", "ok", kw.project_id)
    /\ UNCHANGED <<projects, project_files, clock, txn, input, verdict>>

\* The listing projection of one project.
GetProjectSummary(pid) ==
    /\ Idle
    /\ IF pid \notin DOMAIN projects
       THEN last' = Outcome("summary", "NotFoundError", None)
       ELSE last' = Outcome("summary", "ok", ProjectSummary(projects[pid]))
    /\ UNCHANGED <<projects, project_files, build_outputs, seq, clock, txn, input, verdict>>

\* session.delete(project): the unit of work opens.
BeginDeleteProject(pid) ==
    /\ Idle
    /\ IF pid \notin DOMAIN projects
       THEN /\ last' = Outcome("delete_project", "NotFoundError", pid)
            /\ UNCHANGED txn
       ELSE /\ txn' = [NoTxn EXCEPT !.open = TRUE, !.project_id = pid]
            /\ last' = Outcome("delete_project", "pending", pid)
    /\ UNCHANGED <<projects, project_files, build_outputs, seq, clock, input, verdict>>

\* The flush deletes one dependent ProjectFile row.
FlushDeleteFile ==
    /\ txn.open /\ ~txn.parent
    /\ \E f \in CascadeFiles(txn.project_id) \ txn.files :
           txn' = [txn EXCEPT !.files = @ \cup {f}]
    /\ UNCHANGED <<projects, project_files, build_outputs, seq, clock, last, input, verdict>>

\* The flush deletes one dependent BuildOutput row.
FlushDeleteBuild ==
    /\ txn.open /\ ~txn.parent
    /\ \E b \in CascadeBuilds(txn.project_id) \ txn.builds :
           txn' = [txn EXCEPT !.builds = @ \cup {b}]
    /\ UNCHANGED <<projects, project_files, build_outputs, seq, clock, last, input, verdict>>

\* The flush deletes the project row.
FlushDeleteParent ==
    /\ txn.open /\ ~txn.parent
    /\ ParentDeletable(txn)
    /\ txn' = [txn EXCEPT !.parent = TRUE]
    /\ UNCHANGED <<projects, project_files, build_outputs, seq, clock, last, input, verdict>>

\* commit: the deletes of the unit of work take effect together.
CommitDelete ==
    /\ txn.open /\ txn.parent
    /\ projects' = Without(projects, {txn.project_id})
    /\ project_files' = Without(project_files, txn.files)
    /\ build_outputs' = Without(build_outputs, txn.builds)
    /\ txn' = NoTxn
    /\ last' = Outcome("delete_project", "ok", txn.project_id)
    /\ UNCHANGED <<seq, clock, input, verdict>>

\* A failure before the commit: rollback, nothing of the unit of work remains.
RollbackDelete ==
    /\ txn.open
    /\ txn' = NoTxn
    /\ last' = Outcome("delete_project", "PersistenceError", txn.project_id)
    /\ UNCHANGED <<projects, project_files, build_outputs, seq, clock, input, verdict>>

\* Time passes.
Tick ==
    /\ clock < MaxClock
    /\ clock' = clock + 1
    /\ UNCHANGED <<projects, project_files, build_outputs, seq, txn, last, input, verdict>>

\* ProjectCreate(package_name=s, ...) on a string under validation.
ValidateCreate ==
    /\ verdict.schema = "none"
    /\ verdict' = [schema |-> "ProjectCreate",
                   result |-> ProjectCreate([name |-> "Demo", package_name |-> input,
                                             app_name |-> "Demo App"]).error]
    /\ UNCHANGED <<projects, project_files, build_outputs, seq, clock, txn, last, input>>

\* ProjectUpdate(package_name=s) on a string under validation.
ValidateUpdate ==
    /\ verdict.schema = "none"
    /\ verdict' = [schema |-> "ProjectUpdate",
                   result |-> ProjectUpdate([package_name |-> Some(input)]).error]
    /\ UNCHANGED <<projects, project_files, build_outputs, seq, clock, txn, last, input>>

----------------------------------------------------------------------------
(* Inputs *)

\* The characters strings are drawn from: a lower-case letter, an upper-case
\* letter, a digit, the underscore, the dot, a space and a newline.
Alphabet == {"a", "A", "1", "_", ".", " ", "\n"}

ShortStrings == UNION {[1..n -> Alphabet] : n \in 0..MaxLen}

\* A short string, alone or followed by a run of "a" that brings it to the
\* length limit or just past it.
Padded(s, n) == s \o [i \in 1..n |-> "a"]

PadLengths == {0, PackageNameMaxLength - MaxLen, PackageNameMaxLength - MaxLen + 1}

ValidationInputs == {Padded(s, n) : s \in ShortStrings, n \in PadLengths}

\* Package names handed to the store operations: a well-formed one and one
\* with an upper-case letter.
GoodPackageName == <<"a", ".", "b">>

PackageNameSamples == {GoodPackageName, <<"A", ".", "b">>}

DemoKw(p) == [name |-> "Demo", package_name |-> p, app_name |-> "Demo App"]

\* The values a ProjectUpdate payload carries for a field (None: explicit null).
FieldSamples(f) ==
    CASE f = "name"         -> {Some("Demo")}
      [] f = "description"  -> {Some("")}
      [] f = "package_name" -> {None, Some(GoodPackageName), Some(<<"1", "a">>)}
      [] f = "app_name"     -> {None, Some("Demo App")}
      [] f = "version_name" -> {Some("2.0.0")}
      [] f = "status"       -> {Some(st) : st \in ProjectStatus \cup {"archived"}}
      [] f = "config"       -> {None, Some(EmptyConfig)}

EmptyKwargs == [f \in {} |-> None]

\* Payloads that supply one field.
SingleInputs == UNION {{f :> v : v \in FieldSamples(f)} : f \in UpdateFields}

\* Payloads that supply two fields.
PairInputs ==
    { ("status" :> Some("packaged")) @@ ("config" :> None),
      ("package_name" :> Some(GoodPackageName)) @@ ("version_name" :> Some("2.0.0")),
      ("status" :> Some("failed")) @@ ("package_name" :> Some(<<"1", "a">>)),
      ("name" :> Some("Demo")) @@ ("app_name" :> None) }

UpdateInputs == {EmptyKwargs} \cup SingleInputs \cup PairInputs

\* The payload of the store specification: a status alone.
StatusInputs == {"status" :> Some("uploaded")}

\* The payloads of the clock specification: nothing, or a status alone.
ClockInputs == {EmptyKwargs, "status" :> Some("uploaded"), "status" :> Some("draft")}

ProjectIds == 1..MaxProjects

----------------------------------------------------------------------------
(* Specifications *)

Init ==
    /\ projects = [i \in {} |-> None]
    /\ project_files = [i \in {} |-> None]
    /\ build_outputs = [i \in {} |-> None]
    /\ seq = [projects |-> 1, project_files |-> 1, build_outputs |-> 1]
    /\ clock = 0
    /\ txn = NoTxn
    /\ last = Outcome("none", "ok", None)
    /\ input = <<>>
    /\ verdict = [schema |-> "none", result |-> "none"]

\* The store: rows of the three tables created, counted and deleted.
Next ==
    \/ seq.projects <= MaxProjects /\ CreateProject(DemoKw(GoodPackageName))
    \/ \E pid \in ProjectIds, kw \in StatusInputs : UpdateProject(pid, kw)
    \/ /\ seq.project_files <= MaxFiles
       /\ \E pid \in ProjectIds :
             InsertProjectFile([project_id |-> pid, filename |-> "index.html",
                                file_type |-> "html"])
    \/ \E fid \in 1..MaxFiles : DeleteProjectFile(fid)
    \/ /\ seq.build_outputs <= MaxBuilds
       /\ \E pid \in ProjectIds :
             InsertBuildOutput([project_id |-> pid, build_version |-> "1.0.0",
                                output_path |-> "out.apk", success |-> FALSE,
                                error_message |-> "compile failed"])
    \/ \E pid \in ProjectIds : GetProjectSummary(pid)
    \/ \E pid \in ProjectIds : BeginDeleteProject(pid)
    \/ FlushDeleteFile
    \/ FlushDeleteBuild
    \/ FlushDeleteParent
    \/ CommitDelete
    \/ RollbackDelete

Spec == Init /\ [][Next]_vars

\* The fields of a project: created from a payload, constructed directly,
\* patched.
NextFields ==
    \/ /\ seq.projects <= MaxPatched
       /\ \E p \in PackageNameSamples :
             \/ CreateProject(DemoKw(p))
             \/ CreateProject([name |-> "Demo", package_name |-> p,
                               app_name |-> "Demo App", version_name |-> "2.0.0"])
    \/ /\ seq.projects <= MaxPatched
       /\ \E p \in PackageNameSamples :
             \/ SaveProject(DemoKw(p))
             \/ SaveProject([name |-> "Demo", package_name |-> p,
                             app_name |-> "Demo App", status |-> "packaged"])
    \/ \E pid \in 1..MaxPatched, kw \in UpdateInputs : UpdateProject(pid, kw)

SpecFields == Init /\ [][NextFields]_vars

\* The timestamps of a project: created, patched, as time passes.
NextClock ==
    \/ seq.projects <= MaxProjects /\ CreateProject(DemoKw(GoodPackageName))
    \/ \E pid \in ProjectIds, kw \in ClockInputs : UpdateProject(pid, kw)
    \/ Tick

SpecClock == Init /\ [][NextClock]_vars

\* Validation alone: the string is drawn at the start, then each schema is
\* asked about it.
InitValidate ==
    /\ projects = [i \in {} |-> None]
    /\ project_files = [i \in {} |-> None]
    /\ build_outputs = [i \in {} |-> None]
    /\ seq = [projects |-> 1, project_files |-> 1, build_outputs |-> 1]
    /\ clock = 0
    /\ txn = NoTxn
    /\ last = Outcome("none", "ok", None)
    /\ input \in ValidationInputs
    /\ verdict = [schema |-> "none", result |-> "none"]

NextValidate == ValidateCreate \/ ValidateUpdate

SpecValidate == InitValidate /\ [][NextValidate]_vars

----------------------------------------------------------------------------
(* Properties *)

\* The strings of the pattern: segments joined by single dots, each a
\* lower-case letter followed by lower-case letters, digits and underscores.
IsReverseDomain(s) ==
    /\ Len(s) >= 1
    /\ s[1] \in Lower
    /\ \A i \in 1..Len(s) :
          /\ s[i] \in WordChar \cup {"."}
          /\ s[i] = "." => (i < Len(s) /\ s[i + 1] \in Lower)

\* C1: validation of ProjectCreate(package_name=s) and ProjectUpdate(package_name=s)
\* succeeds exactly when s is a string of the pattern within the 100-character
\* limit, and fails with a validation error otherwise.
C1_ValidationDecidesPattern ==
    verdict.schema # "none" =>
        /\ verdict.result \in {"ok", "ValidationError"}
        /\ verdict.result = "ok" <=>
              (IsReverseDomain(input) /\ Len(input) <= PackageNameMaxLength)

\* No file or build row refers to a project outside the given rows.
NoOrphans(P, F, B) ==
    /\ \A f \in F : project_files[f].project_id \in P
    /\ \A b \in B : build_outputs[b].project_id \in P

CommittedNoOrphans ==
    NoOrphans(DOMAIN projects, DOMAIN project_files, DOMAIN build_outputs)

ViewNoOrphans == NoOrphans(ViewProjects, ViewFiles, ViewBuilds)

\* The commit of a delete of project pid removed the project, its N files and
\* its M builds, N + M + 1 rows, and left every other row as it was.
RemovedExactly(pid) ==
    LET N == {f \in DOMAIN project_files : project_files[f].project_id = pid}
        M == {b \in DOMAIN build_outputs : build_outputs[b].project_id = pid}
        rows(t) == Cardinality(DOMAIN t)
    IN  /\ projects' = [i \in DOMAIN projects \ {pid} |-> projects[i]]
        /\ project_files' = [i \in DOMAIN project_files \ N |-> project_files[i]]
        /\ build_outputs' = [i \in DOMAIN build_outputs \ M |-> build_outputs[i]]
        /\ (rows(projects) + rows(project_files) + rows(build_outputs))
             - (rows(projects') + rows(project_files') + rows(build_outputs'))
           = Cardinality(N) + Cardinality(M) + 1

\* C2: a delete of a project removes the project, its files and its builds
\* and no other row, all at the commit; before the commit and after a failed
\* delete the tables are as they were, and neither the committed rows nor the
\* rows the unit of work sees ever hold a file or build of a missing project.
C2_CascadeDeleteAtomic ==
    [][ /\ CommittedNoOrphans'
        /\ ViewNoOrphans'
        /\ txn'.open => UNCHANGED <<projects, project_files, build_outputs>>
        /\ (txn.open /\ ~txn'.open) =>
              IF last'.error = "ok"
              THEN RemovedExactly(txn.project_id)
              ELSE UNCHANGED <<projects, project_files, build_outputs>> ]_vars

\* A project was deleted together with its build, and a file of another
\* project is still there.
C2_Witness ==
    /\ last.op = "delete_project" /\ last.error = "ok"
    /\ seq.build_outputs > 1 /\ DOMAIN build_outputs = {}
    /\ DOMAIN project_files # {}
    /\ last.result \notin DOMAIN projects

\* C3: an insert of a ProjectFile whose project_id names no project fails with
\* a referential-integrity error and changes none of the three tables.
C3_ForeignKeyRejected ==
    [][ \A pid \in ProjectIds :
           (last'.op = "insert_file" /\ last'.result = pid /\ pid \notin DOMAIN projects)
           => /\ last'.error = "ReferentialIntegrityError"
              /\ UNCHANGED <<projects, project_files, build_outputs>> ]_vars

\* A file insert was refused although another project exists and has a file.
C3_Witness ==
    /\ last.op = "insert_file" /\ last.error = "ReferentialIntegrityError"
    /\ last.result \notin DOMAIN projects
    /\ DOMAIN projects # {}
    /\ DOMAIN project_files # {}

\* C4: the file_count of the summary produced for a project is the number of
\* ProjectFile rows whose project_id is the project's id when it is produced.
C4_FileCountIsLive ==
    (last.op = "summary" /\ last.error = "ok") =>
        last.result.file_count =
            Cardinality({f \in DOMAIN project_files :
                            project_files[f].project_id = last.result.id})

\* A summary counts the one file of its project, while another project has a
\* file too.
C4_Witness ==
    /\ last.op = "summary" /\ last.error = "ok"
    /\ last.result.file_count = 1
    /\ Cardinality(DOMAIN project_files) = 2

\* C5: a successful update sets each supplied field to the supplied value (an
\* explicit null included) and leaves every field of ProjectUpdate that the
\* payload did not supply as it was; a refused update changes nothing.
C5_PartialUpdateFrame ==
    [][ last'.op = "update" =>
           IF last'.error = "ok"
           THEN LET pid == last'.result.id
                    kw  == last'.result.arg
                IN  /\ \A f \in UpdateFields \ DOMAIN kw :
                          projects'[pid][f] = projects[pid][f]
                    /\ \A f \in DOMAIN kw :
                          projects'[pid][f] = IF f = "config" THEN kw[f] ELSE kw[f][1]
                    /\ \A q \in DOMAIN projects \ {pid} : projects'[q] = projects[q]
           ELSE projects' = projects ]_vars

\* An update that supplied config as an explicit null cleared it and kept a
\* version name and a status set before.
C5_Witness ==
    /\ last.op = "update" /\ last.error = "ok"
    /\ last.result.arg = ("config" :> None)
    /\ projects[last.result.id].config = None
    /\ projects[last.result.id].version_name = "2.0.0"
    /\ projects[last.result.id].status = "processing"

C7_Defaults ==
    /\ (last.op = "save" /\ last.error = "ok" /\ last.result.arg = RequiredProjectFields) =>
          LET p == projects[last.result.id]
          IN  /\ p.status = "draft"
              /\ p.version_code = 1
              /\ p.version_name = "1.0.0"
              /\ p.description = ""
              /\ p.packaged_at = None
              /\ p.config = Some({})
    /\ (last.op = "create" /\ last.error = "ok"
          /\ last.result.arg.given = RequiredProjectFields) =>
          LET c == last.result.arg.obj
          IN  /\ c.version_name = "1.0.0"
              /\ c.description = ""
              /\ c.config = Some({})

\* A project constructed from the three required fields alone was saved.
C7_Witness ==
    /\ last.op = "save" /\ last.error = "ok"
    /\ last.result.arg = RequiredProjectFields
    /\ last.result.id \in DOMAIN projects

\* C8: a BuildOutput row, once created, stays as it is in every later state
\* until its owning project is deleted.
C8_BuildOutputAppendOnly ==
    [][ \A b \in DOMAIN build_outputs :
           \/ b \in DOMAIN build_outputs' /\ build_outputs'[b] = build_outputs[b]
           \/ build_outputs[b].project_id \notin DOMAIN projects' ]_vars

\* A build row is still there after its project was patched and another
\* project was deleted.
C8_Witness ==
    /\ last.op = "delete_project" /\ last.error = "ok"
    /\ \E b \in DOMAIN build_outputs :
          projects[build_outputs[b].project_id].status = "uploaded"

\* C9: every persisted project's package_name is a string of the pattern,
\* however the project was written.
C9_PersistedPackageNameMatches ==
    \A pid \in DOMAIN projects : IsReverseDomain(projects[pid].package_name)

\* The lifecycle draft -> uploaded -> processing -> (packaged | failed).
LifecycleStep(a, b) ==
    \/ a = "draft" /\ b = "uploaded"
    \/ a = "uploaded" /\ b = "processing"
    \/ a = "processing" /\ b \in {"packaged", "failed"}

====
